---------------------------- MODULE Spec2Model ----------------------------
(***************************************************************************)
(* Model of the KILO chat backend (src/kilo/main.py): the /chat/{store_id} *)
(* handler chat_with_kilo, the KILOAgent it builds (knowledge-base lookup, *)
(* completion call with fallback, keyword intent tagging, action           *)
(* execution) and the two tables it writes through                         *)
(* DatabaseManager.execute_query.                                          *)
(*                                                                         *)
(* Python strings that the code inspects (the customer message, the        *)
(* keywords) are sequences of one-character strings, so that lower(),      *)
(* len() and the `in` substring test are computed as Python computes them. *)
(***************************************************************************)
EXTENDS Integers, Sequences, FiniteSets, TLC

(***************************************************************************)
(* Bounds of the model.                                                    *)
(***************************************************************************)
MaxRequests == 2      \* chat requests served in one behaviour
MaxFrags == 3         \* fragments concatenated into a tagger input message
PadLen == 50          \* length of the filler fragment of tagger inputs

(***************************************************************************)
(* Program constants.                                                      *)
(***************************************************************************)
EngagementLen == 100  \* main.py:169  len(message) > 100
IntentScore == 85     \* main.py:205  fixed intent_score of a lead row

None == "<None>"      \* Python None

Range(s) == {s[i] : i \in 1..Len(s)}

(***************************************************************************)
(* str.lower() on ASCII text.                                              *)
(***************************************************************************)
UpperChars == <<"A","B","C","D","E","F","G","H","I","J","K","L","M",
                "N","O","P","Q","R","S","T","U","V","W","X","Y","Z">>
LowerChars == <<"a","b","c","d","e","f","g","h","i","j","k","l","m",
                "n","o","p","q","r","s","t","u","v","w","x","y","z">>

LowerChar(c) ==
    IF \E i \in 1..Len(UpperChars) : UpperChars[i] = c
    THEN LowerChars[CHOOSE i \in 1..Len(UpperChars) : UpperChars[i] = c]
    ELSE c

lower(s) == [i \in 1..Len(s) |-> LowerChar(s[i])]

(***************************************************************************)
(* `word in text` for Python strings: word occurs as a contiguous          *)
(* substring of text.                                                      *)
(***************************************************************************)
Contains(text, word) ==
    \E i \in 1..(Len(text) - Len(word) + 1) :
        SubSeq(text, i, i + Len(word) - 1) = word

\* any(word in text for word in words)
AnyWordIn(words, text) == \E k \in 1..Len(words) : Contains(text, words[k])

(***************************************************************************)
(* The keyword lists of detect_intent_and_actions.                         *)
(***************************************************************************)
B2BWords ==
    << <<"w","e","b","s","i","t","e">>,
       <<"a","u","t","o","m","a","t","i","o","n">>,
       <<"b","u","s","i","n","e","s","s">>,
       <<"b","u","l","k">>,
       <<"t","e","a","m">>,
       <<"c","o","m","p","a","n","y">> >>

VIPWords ==
    << <<"c","u","s","t","o","m">>,
       <<"o","n","e","-","o","f","f">>,
       <<"u","n","i","q","u","e">>,
       <<"e","m","b","r","o","i","d","e","r","y">>,
       <<"d","e","s","i","g","n">> >>

PurchaseWords ==
    << <<"b","u","y">>,
       <<"p","u","r","c","h","a","s","e">>,
       <<"o","r","d","e","r">>,
       <<"c","a","r","t">>,
       <<"c","h","e","c","k","o","u","t">> >>

B2BAction ==
    [type |-> "capture_b2b_lead", priority |-> "high",
     reason |-> "B2B services inquiry detected"]
VIPAction ==
    [type |-> "capture_vip_lead", priority |-> "high",
     reason |-> "VIP custom work inquiry detected"]
OrderAction ==
    [type |-> "create_draft_order", priority |-> "medium",
     reason |-> "Purchase intent detected"]
EngagedAction ==
    [type |-> "mark_engaged_customer", priority |-> "low",
     reason |-> "High engagement detected"]

\* main.py:169  len(message) > 100 or '?' in message  (on the raw message)
HighEngagement(message) ==
    Len(message) > EngagementLen \/ Contains(message, <<"?">>)

(***************************************************************************)
(* KILOAgent.detect_intent_and_actions: four independent `if`s, each       *)
(* appending to the list built so far.  The response argument is unused.   *)
(***************************************************************************)
\* variant: the purchase rule as an `elif` of the custom-work rule
detect_intent_and_actions_Elif(message, response) ==
    LET msg_lower == lower(message)
        a0 == << >>
        a1 == IF AnyWordIn(B2BWords, msg_lower) THEN Append(a0, B2BAction) ELSE a0
        a2 == IF AnyWordIn(VIPWords, msg_lower) THEN Append(a1, VIPAction)
              ELSE IF AnyWordIn(PurchaseWords, msg_lower) THEN Append(a1, OrderAction)
              ELSE a1
        a4 == IF HighEngagement(message) THEN Append(a2, EngagedAction) ELSE a2
    IN  a4

detect_intent_and_actions(message, response) ==
    LET msg_lower == lower(message)
        a0 == << >>
        a1 == IF AnyWordIn(B2BWords, msg_lower) THEN Append(a0, B2BAction) ELSE a0
        a2 == IF AnyWordIn(VIPWords, msg_lower) THEN Append(a1, VIPAction) ELSE a1
        a3 == IF AnyWordIn(PurchaseWords, msg_lower) THEN Append(a2, OrderAction) ELSE a2
        a4 == IF HighEngagement(message) THEN Append(a3, EngagedAction) ELSE a3
    IN  a4


(***************************************************************************)
(* State.                                                                  *)
(*   vip_leads, chat_sessions  the two tables written by the pipeline      *)
(*   pc              position of the request being served in               *)
(*                   chat_with_kilo                                        *)
(*   nreq            number of chat requests received so far               *)
(*   store_id, data  path parameter and JSON body of the request           *)
(*   kilo            the KILOAgent built for the request                   *)
(*   result          what generate_response returned                       *)
(*   idx             position of the `for action in ...` loop              *)
(*   action_results  the list built by the loop                            *)
(*   reply           what the HTTP caller receives                         *)
(*   executed, ev    history of the request: the actions handed to         *)
(*                   execute_action, and the calls made to the knowledge   *)
(*                   base, the provider and the tables                     *)
(*   tag_msg, tag_out  input and output of a stand-alone call of           *)
(*                   detect_intent_and_actions                             *)
(***************************************************************************)
VARIABLES vip_leads, chat_sessions, pc, nreq, store_id, data, kilo, result,
          idx, action_results, reply, executed, ev, tag_msg, tag_out

vars == <<vip_leads, chat_sessions, pc, nreq, store_id, data, kilo, result,
          idx, action_results, reply, executed, ev, tag_msg, tag_out>>

pipeline_vars == <<vip_leads, chat_sessions, pc, nreq, store_id, data, kilo,
                   result, idx, action_results, reply, executed, ev>>

(***************************************************************************)
(* Inputs of a chat request.                                               *)
(***************************************************************************)
MsgHi == <<"h","i">>
MsgAsk == <<"h","i","?">>
MsgWebsite == <<"W","e","b","s","i","t","e">>
MsgBuy == <<"b","u","y">>
MsgBuyDesign ==
    <<"b","u","y"," ","t","h","i","s"," ","d","e","s","i","g","n">>
MsgCustomTeam == <<"c","u","s","t","o","m"," ","t","e","a","m","?">>

Messages == {MsgHi, MsgAsk, MsgWebsite, MsgBuy, MsgBuyDesign, MsgCustomTeam}

StoreIds == {1, 2}

Customers ==
    { [email |-> None,      name |-> None],
      [email |-> "",        name |-> "Ann"],
      [email |-> "a@b.com", name |-> "Ann"] }

\* JSON bodies: the message key absent, present and empty, or present with text
Bodies ==
    { [has_message |-> h, message |-> m, session_id |-> None, customer |-> c] :
        h \in {FALSE}, m \in {<< >>}, c \in Customers }
    \cup
    { [has_message |-> h, message |-> m, session_id |-> None, customer |-> c] :
        h \in {TRUE}, m \in Messages \cup {<< >>}, c \in Customers }
    \cup
    { [has_message |-> TRUE, message |-> MsgAsk, session_id |-> "s1",
       customer |-> [email |-> None, name |-> None]] }

Now == "2025-01-01T00:00:00"      \* datetime.now()
ProviderText == "Locked in - what are you building?"

\* kb_documents rows (doc_type, title, content) that are active, per store
KBRows(sid) ==
    IF sid = 1 THEN << <<"policy", "Shipping", "Ships in 3 days">> >> ELSE << >>

NoDict == [none |-> TRUE]
NotTagged == [called |-> FALSE, actions |-> << >>]
NoAgent == [store_id |-> 0, knowledge |-> << >>, context |-> << >>, built |-> FALSE]

NoEvents ==
    [kb_lookup |-> 0, provider_call |-> 0, chat_write |-> 0, lead_write |-> 0,
     kb_failed |-> FALSE, provider_failed |-> FALSE, save_failed |-> FALSE,
     insert_ok |-> 0]

(***************************************************************************)
(* Results of calls: a returned value or a raised exception.               *)
(***************************************************************************)
Return(v) == [raised |-> FALSE, exc |-> None, value |-> v]
Raise(e) == [raised |-> TRUE, exc |-> e, value |-> NoDict]

(***************************************************************************)
(* DatabaseManager.execute_query.  The statement is committed and, unless  *)
(* the query text starts with SELECT, cursor.rowcount (an int) is          *)
(* returned; only a SELECT returns fetched rows.  A failure of the         *)
(* connection or of the statement raises.                                  *)
(***************************************************************************)
IsSelect(query) == query = "SELECT"

execute_query(query, rows, rowcount, db_ok) ==
    IF ~db_ok THEN Raise("OperationalError")
    ELSE IF IsSelect(query) THEN Return([kind |-> "rows", rows |-> rows, n |-> 0])
    ELSE Return([kind |-> "int", rows |-> << >>, n |-> rowcount])

\* Python truth value of what execute_query returned
Truthy(value) == IF value.kind = "int" THEN value.n # 0 ELSE Len(value.rows) > 0

(***************************************************************************)
(* KILOAgent.__init__ / load_store_context: SELECT the active documents    *)
(* of the store and join one formatted line per document.                  *)
(***************************************************************************)
ContextOf(knowledge) ==
    [i \in 1..Len(knowledge) |->
        <<"[", knowledge[i][1], "] ", knowledge[i][2], ": ", knowledge[i][3]>>]

load_store_context(sid, db_ok) ==
    LET q == execute_query("SELECT", KBRows(sid), 0, db_ok)
    IN  IF q.raised THEN Raise(q.exc)
        ELSE Return([store_id |-> sid, knowledge |-> q.value.rows,
                     context |-> ContextOf(q.value.rows), built |-> TRUE])

(***************************************************************************)
(* KILOAgent.generate_response: the provider call and the tagging are      *)
(* inside one try; any Exception gives the fallback dict.                  *)
(***************************************************************************)
FallbackText ==
    "Having a quick technical moment - can you try that again? I'm here to help with anything Tahoe Enterprise related!"

FallbackResult(e) == [response |-> FallbackText, actions |-> << >>, error |-> e]

\* variant: the provider call outside any try
generate_response_NoTry(message, provider) ==
    IF provider.raised
    THEN Raise(provider.exc)
    ELSE Return([response |-> provider.value,
                 actions |-> detect_intent_and_actions(message, provider.value),
                 agent |-> "KILO", timestamp |-> Now])

generate_response(message, provider) ==
    IF provider.raised
    THEN Return(FallbackResult(provider.exc))
    ELSE Return([response |-> provider.value,
                 actions |-> detect_intent_and_actions(message, provider.value),
                 agent |-> "KILO", timestamp |-> Now])

(***************************************************************************)
(* KILOAgent.capture_lead.  `if email:` is the only guard of the INSERT.   *)
(* After the INSERT the code subscripts what execute_query returned.       *)
(* The outcome carries the table after the call.                           *)
(***************************************************************************)
\* variant: `if email is not None:`
EmailGiven_NotNone(email) == email # None

EmailGiven(email) == email # None /\ email # ""

\* variant: the lead_type argument ignored, every row stored as b2b_bulk
LeadRow_OneKind(id, sid, email, name, lead_type, context) ==
    [id |-> id, store_id |-> sid, email |-> email, name |-> name,
     lead_type |-> "b2b_bulk", intent_score |-> IntentScore,
     chat_context |-> context, consent_email |-> TRUE]

LeadRow(id, sid, email, name, lead_type, context) ==
    [id |-> id, store_id |-> sid, email |-> email, name |-> name,
     lead_type |-> lead_type, intent_score |-> IntentScore,
     chat_context |-> context, consent_email |-> TRUE]

\* result[0][0] if result else None
FirstCell(value) ==
    IF ~Truthy(value) THEN Return(None)
    ELSE IF value.kind = "rows" THEN Return(value.rows[1][1])
    ELSE Raise("TypeError")

capture_lead(agent, customer_data, lead_type, leads, db_ok) ==
    IF EmailGiven(customer_data.email)
    THEN LET q == execute_query("INSERT", << >>, 1, db_ok)
             row == LeadRow(Len(leads) + 1, agent.store_id, customer_data.email,
                            customer_data.name, lead_type, customer_data.message)
         IN  IF q.raised
             THEN [leads |-> leads, out |-> Raise(q.exc), inserts |-> 1, ok |-> 0]
             ELSE LET cell == FirstCell(q.value)
                  IN  [leads |-> Append(leads, row),
                       out |-> IF cell.raised THEN Raise(cell.exc)
                               ELSE Return([status |-> "lead_captured",
                                            lead_id |-> cell.value]),
                       inserts |-> 1, ok |-> 1]
    ELSE [leads |-> leads, out |-> Return([status |-> "email_required"]),
          inserts |-> 0, ok |-> 0]

(***************************************************************************)
(* KILOAgent.execute_action: dispatch on action["type"].  KILOAgent has no *)
(* method create_draft_order, so that branch raises AttributeError.        *)
(***************************************************************************)
execute_action(agent, action, customer_data, leads, db_ok) ==
    IF action.type = "capture_b2b_lead"
    THEN capture_lead(agent, customer_data, "b2b_bulk", leads, db_ok)
    ELSE IF action.type = "capture_vip_lead"
    THEN capture_lead(agent, customer_data, "vip_custom", leads, db_ok)
    ELSE IF action.type = "create_draft_order"
    THEN [leads |-> leads, out |-> Raise("AttributeError"), inserts |-> 0, ok |-> 0]
    ELSE [leads |-> leads, out |-> Return([status |-> "no_action_taken"]),
          inserts |-> 0, ok |-> 0]

(***************************************************************************)
(* chat_with_kilo, one action per call it makes.                           *)
(***************************************************************************)
Message == IF data.has_message THEN data.message ELSE << >>
SessionId ==
    IF data.session_id = None THEN "session_1735689600.0" ELSE data.session_id

\* `if not message:`
\* variant: `if message is None:`, which the default "" never meets
NoMessage_IsNone(message) == FALSE

NoMessage(message) == message = << >>

\* action["priority"] in ["high", "medium"]
\* variant: no priority test in the loop
ShouldExecute_Any(action) == action.priority \in {"high", "medium", "low"}

ShouldExecute(action) == action.priority \in {"high", "medium"}

NoReply == [status |-> 0, body |-> NoDict]
Rejected == [status |-> 400, body |-> [error |-> "No message provided"]]
\* an exception that leaves the handler: the framework answers 500
Unhandled(exc) == [status |-> 500, body |-> [unhandled |-> exc]]

\* lines 225-232: read the body; reject a missing or empty message
ChatReceive(sid, body) ==
    /\ pc \in {"idle", "done"}
    /\ nreq < MaxRequests
    /\ nreq' = nreq + 1
    /\ store_id' = sid
    /\ data' = body
    /\ kilo' = NoAgent
    /\ result' = NoDict
    /\ idx' = 1
    /\ action_results' = << >>
    /\ executed' = << >>
    /\ ev' = NoEvents
    /\ IF NoMessage(IF body.has_message THEN body.message ELSE << >>)
       THEN reply' = Rejected /\ pc' = "done"
       ELSE reply' = NoReply /\ pc' = "agent"
    /\ UNCHANGED <<vip_leads, chat_sessions, tag_msg, tag_out>>

\* line 235: kilo = KILOAgent(store_id)
BuildAgent(db_ok) ==
    /\ pc = "agent"
    /\ LET a == load_store_context(store_id, db_ok)
       IN  /\ ev' = [ev EXCEPT !.kb_lookup = @ + 1, !.kb_failed = a.raised]
           /\ IF a.raised
              THEN /\ reply' = Unhandled(a.exc)
                   /\ pc' = "done"
                   /\ kilo' = kilo
              ELSE /\ kilo' = a.value
                   /\ pc' = "generate"
                   /\ reply' = reply
    /\ UNCHANGED <<vip_leads, chat_sessions, nreq, store_id, data, result, idx,
                   action_results, executed, tag_msg, tag_out>>

\* line 238: result = await kilo.generate_response(message, customer_data)
GenerateResponse(provider) ==
    /\ pc = "generate"
    /\ LET r == generate_response(Message, provider)
       IN  /\ ev' = [ev EXCEPT !.provider_call = @ + 1,
                               !.provider_failed = provider.raised]
           /\ IF r.raised
              THEN /\ reply' = Unhandled(r.exc)
                   /\ pc' = "done"
                   /\ result' = result
              ELSE /\ result' = r.value
                   /\ pc' = "save"
                   /\ reply' = reply
    /\ UNCHANGED <<vip_leads, chat_sessions, nreq, store_id, data, kilo, idx,
                   action_results, executed, tag_msg, tag_out>>

\* lines 241-245: INSERT INTO chat_sessions
SaveConversation(db_ok) ==
    /\ pc = "save"
    /\ LET q == execute_query("INSERT", << >>, 1, db_ok)
           row == [store_id |-> store_id, session_id |-> SessionId,
                   customer_message |-> Message, ai_response |-> result.response]
       IN  /\ ev' = [ev EXCEPT !.chat_write = @ + 1, !.save_failed = q.raised]
           /\ IF q.raised
              THEN /\ reply' = Unhandled(q.exc)
                   /\ pc' = "done"
                   /\ chat_sessions' = chat_sessions
              ELSE /\ chat_sessions' = Append(chat_sessions, row)
                   /\ pc' = "actions"
                   /\ reply' = reply
    /\ idx' = 1
    /\ action_results' = << >>
    /\ UNCHANGED <<vip_leads, nreq, store_id, data, kilo, result, executed,
                   tag_msg, tag_out>>

\* lines 249-256, an action that passes the priority test
ExecuteAction(db_ok) ==
    /\ pc = "actions"
    /\ idx <= Len(result.actions)
    /\ ShouldExecute(result.actions[idx])
    /\ LET action == result.actions[idx]
           customer_data == [email |-> data.customer.email,
                             name |-> data.customer.name,
                             message |-> Message]
           x == execute_action(kilo, action, customer_data, vip_leads, db_ok)
       IN  /\ executed' = Append(executed, action)
           /\ vip_leads' = x.leads
           /\ ev' = [ev EXCEPT !.lead_write = @ + x.inserts, !.insert_ok = @ + x.ok]
           /\ IF x.out.raised
              THEN /\ reply' = Unhandled(x.out.exc)
                   /\ pc' = "done"
                   /\ UNCHANGED <<idx, action_results>>
              ELSE /\ action_results' = Append(action_results, x.out.value)
                   /\ idx' = idx + 1
                   /\ UNCHANGED <<reply, pc>>
    /\ UNCHANGED <<chat_sessions, nreq, store_id, data, kilo, result,
                   tag_msg, tag_out>>

\* lines 249-250, an action that fails the priority test
SkipAction ==
    /\ pc = "actions"
    /\ idx <= Len(result.actions)
    /\ ~ShouldExecute(result.actions[idx])
    /\ idx' = idx + 1
    /\ UNCHANGED <<vip_leads, chat_sessions, pc, nreq, store_id, data, kilo,
                   result, action_results, reply, executed, ev, tag_msg, tag_out>>

\* lines 258-265, after the loop
Respond ==
    /\ pc = "actions"
    /\ idx > Len(result.actions)
    /\ reply' = [status |-> 200,
                 body |-> [success |-> TRUE, response |-> result.response,
                           actions |-> result.actions,
                           action_results |-> action_results,
                           session_id |-> SessionId, agent |-> "KILO"]]
    /\ pc' = "done"
    /\ UNCHANGED <<vip_leads, chat_sessions, nreq, store_id, data, kilo, result,
                   idx, action_results, executed, ev, tag_msg, tag_out>>

ProviderOutcomes == {Return(ProviderText), Raise("Timeout")}

Init ==
    /\ vip_leads = << >>
    /\ chat_sessions = << >>
    /\ pc = "idle"
    /\ nreq = 0
    /\ store_id = 0
    /\ data = [has_message |-> FALSE, message |-> << >>, session_id |-> None,
               customer |-> [email |-> None, name |-> None]]
    /\ kilo = NoAgent
    /\ result = NoDict
    /\ idx = 1
    /\ action_results = << >>
    /\ reply = NoReply
    /\ executed = << >>
    /\ ev = NoEvents
    /\ tag_msg = << >>
    /\ tag_out = NotTagged

Next ==
    \/ \E sid \in StoreIds, body \in Bodies : ChatReceive(sid, body)
    \/ \E db_ok \in BOOLEAN : BuildAgent(db_ok)
    \/ \E provider \in ProviderOutcomes : GenerateResponse(provider)
    \/ \E db_ok \in BOOLEAN : SaveConversation(db_ok)
    \/ \E db_ok \in BOOLEAN : ExecuteAction(db_ok)
    \/ SkipAction
    \/ Respond

Spec == Init /\ [][Next]_vars

(***************************************************************************)
(* detect_intent_and_actions on its own: the message is any concatenation  *)
(* of at most MaxFrags fragments, so keywords also arise across fragment   *)
(* boundaries ("Web" + "SITE") and lengths fall on both sides of 100.      *)
(***************************************************************************)
Pad == [i \in 1..PadLen |-> "x"]

Fragments ==
    { <<"b","u","y">>, <<" ","t","h","i","s"," ">>, <<"d","e","s","i","g","n">>,
      <<"W","e","b">>, <<"S","I","T","E">>, <<"?">>, <<"t","e","a","m">>,
      <<"O","r","d","e","r">>, <<"h","i">>, Pad }

RECURSIVE MessagesUpTo(_)
MessagesUpTo(n) ==
    IF n = 0 THEN {<< >>}
    ELSE LET shorter == MessagesUpTo(n - 1)
         IN  shorter \cup {m \o f : m \in shorter, f \in Fragments}

TagMessages == MessagesUpTo(MaxFrags)

TagInit ==
    /\ vip_leads = << >>
    /\ chat_sessions = << >>
    /\ pc = "idle"
    /\ nreq = 0
    /\ store_id = 0
    /\ data = [has_message |-> FALSE, message |-> << >>, session_id |-> None,
               customer |-> [email |-> None, name |-> None]]
    /\ kilo = NoAgent
    /\ result = NoDict
    /\ idx = 1
    /\ action_results = << >>
    /\ reply = NoReply
    /\ executed = << >>
    /\ ev = NoEvents
    /\ tag_msg \in TagMessages
    /\ tag_out = NotTagged

TagDetect ==
    /\ ~tag_out.called
    /\ tag_out' = [called |-> TRUE,
                   actions |-> detect_intent_and_actions(tag_msg, ProviderText)]
    /\ UNCHANGED <<pipeline_vars, tag_msg>>

TagNext == TagDetect

SpecTagger == TagInit /\ [][TagNext]_vars

(***************************************************************************)
(* Properties.                                                             *)
(***************************************************************************)
\* C1: every row of vip_leads has a non-empty email, and when the executor
\* handles a business-lead or custom-work-lead action while the customer
\* email is absent or empty, it issues no INSERT, leaves vip_leads as it
\* was and returns {"status": "email_required"}.
C1_NoLeadWithoutEmail ==
    /\ [](\A i \in 1..Len(vip_leads) :
            vip_leads[i].email # None /\ vip_leads[i].email # "")
    /\ [][ (/\ Len(executed') = Len(executed) + 1
            /\ executed'[Len(executed')].type
                  \in {"capture_b2b_lead", "capture_vip_lead"}
            /\ data.customer.email \in {None, ""})
           => (/\ vip_leads' = vip_leads
               /\ ev'.lead_write = ev.lead_write
               /\ action_results' =
                      Append(action_results, [status |-> "email_required"])) ]_vars

\* a lead is already stored and a later request without email got
\* email_required from the executor
C1_Witness ==
    /\ Len(vip_leads) > 0
    /\ data.customer.email = ""
    /\ Len(executed) > 0
    /\ executed[1].type = "capture_b2b_lead"
    /\ Len(action_results) > 0
    /\ action_results[1] = [status |-> "email_required"]

\* C2: once the provider call of generate_response has been made,
\* generate_response has returned a dict (no exception left it); if the
\* provider failed the dict carries the fixed fallback text and an "error"
\* key holding the error, and if the provider answered it has no "error" key.
C2_FallbackOnProviderFailure ==
    ev.provider_call = 1 =>
        /\ "response" \in DOMAIN result
        /\ ev.provider_failed =>
              /\ result.response =
                   "Having a quick technical moment - can you try that again? I'm here to help with anything Tahoe Enterprise related!"
              /\ "error" \in DOMAIN result
              /\ result.error = "Timeout"
        /\ ~ev.provider_failed => "error" \notin DOMAIN result

C2_Witness ==
    /\ ev.provider_failed
    /\ pc = "save"
    /\ "error" \in DOMAIN result
    /\ Message = MsgBuyDesign

\* C3: if the INSERT INTO chat_sessions of a request failed, the caller
\* still gets the 200 reply carrying the generated response text, never an
\* unhandled fault.
C3_SaveFailureNonFatal ==
    ev.save_failed =>
        /\ reply.status # 500
        /\ pc = "done" => (reply.status = 200 /\ reply.body.response = result.response)

\* C4: if the knowledge-base SELECT failed while the agent was built, the
\* agent exists with an empty context and the request was not aborted.
C4_LookupFailsOpen ==
    ev.kb_failed =>
        /\ kilo.built
        /\ kilo.context = << >>
        /\ reply.status # 500

\* C5: only actions of priority high or medium are handed to execute_action;
\* a low-priority action is stepped over without any table write, is never
\* handed over, and is part of the actions list of the 200 reply, which has
\* one action result per action handed over.
C5_PriorityGate ==
    /\ [](\A i \in 1..Len(executed) : executed[i].priority \in {"high", "medium"})
    /\ [](reply.status = 200 =>
            /\ reply.body.actions = detect_intent_and_actions(Message, ProviderText)
                 \/ ev.provider_failed
            /\ reply.body.actions = result.actions
            /\ Len(reply.body.action_results) = Len(executed)
            /\ Len(executed) =
                 Cardinality({i \in 1..Len(result.actions) :
                                 result.actions[i].priority # "low"}))
    /\ [][ (/\ pc = "actions"
            /\ idx <= Len(result.actions)
            /\ result.actions[idx].priority = "low")
           => (/\ executed' = executed
               /\ action_results' = action_results
               /\ vip_leads' = vip_leads
               /\ chat_sessions' = chat_sessions
               /\ ev' = ev) ]_vars

\* a completed request whose reply lists a low-priority action next to
\* actions that were executed
C5_Witness ==
    /\ pc = "done"
    /\ reply.status = 200
    /\ Len(executed) = 2
    /\ Len(reply.body.actions) = 3
    /\ reply.body.actions[3].priority = "low"

\* C6: the tagger's output lists, in table order and once each, exactly the
\* rules of [business-lead(high), custom-work-lead(high),
\* purchase-intent(medium), engagement-flag(low)] that fire on the message,
\* each rule judged on its own; so a message longer than 100 characters
\* always carries engagement-flag, and "buy this design" gives
\* custom-work-lead followed by purchase-intent.
C6_TaggerRuleTable ==
    tag_out.called =>
        LET out == tag_out.actions
            folded == lower(tag_msg)
            RuleKinds == <<"capture_b2b_lead", "capture_vip_lead",
                           "create_draft_order", "mark_engaged_customer">>
            RulePriority == <<"high", "high", "medium", "low">>
            HasAsSubstring(text, word) ==
                \E i \in 0..(Len(text) - Len(word)) :
                    \A k \in 1..Len(word) : text[i + k] = word[k]
            RuleFires(r) ==
                CASE r = 1 -> \E w \in Range(B2BWords) : HasAsSubstring(folded, w)
                  [] r = 2 -> \E w \in Range(VIPWords) : HasAsSubstring(folded, w)
                  [] r = 3 -> \E w \in Range(PurchaseWords) : HasAsSubstring(folded, w)
                  [] r = 4 -> Len(tag_msg) > 100 \/ "?" \in Range(tag_msg)
            fired == {r \in 1..4 : RuleFires(r)}
            pos(r) == Cardinality({q \in fired : q <= r})
        IN  /\ Len(out) = Cardinality(fired)
            /\ \A r \in fired :
                    /\ out[pos(r)].type = RuleKinds[r]
                    /\ out[pos(r)].priority = RulePriority[r]
            /\ Len(tag_msg) > 100 => out[Len(out)].type = "mark_engaged_customer"
            /\ tag_msg = MsgBuyDesign =>
                 /\ Len(out) = 2
                 /\ out[1].type = "capture_vip_lead"
                 /\ out[2].type = "create_draft_order"

C6_Witness ==
    /\ tag_out.called
    /\ tag_msg = MsgBuyDesign
    /\ Len(tag_out.actions) = 2

\* C7: when the executor is handed a business-lead (custom-work-lead) action
\* and the customer email is non-empty, it issues exactly one INSERT into
\* vip_leads; the row the table takes is the only one added, it is for the
\* request's store, of lead kind "b2b_bulk" ("vip_custom"), intent score 85,
\* with that email and the customer message as context.  No row of another
\* kind or score is ever in the table.
C7_LeadRowWritten ==
    /\ [](\A i \in 1..Len(vip_leads) :
            /\ vip_leads[i].lead_type \in {"b2b_bulk", "vip_custom"}
            /\ vip_leads[i].intent_score = 85)
    /\ [][ (/\ Len(executed') = Len(executed) + 1
            /\ executed'[Len(executed')].type
                  \in {"capture_b2b_lead", "capture_vip_lead"}
            /\ data.customer.email \notin {None, ""})
           => (/\ ev'.lead_write = ev.lead_write + 1
               /\ \/ /\ ev'.insert_ok = ev.insert_ok
                     /\ vip_leads' = vip_leads
                  \/ /\ ev'.insert_ok = ev.insert_ok + 1
                     /\ Len(vip_leads') = Len(vip_leads) + 1
                     /\ SubSeq(vip_leads', 1, Len(vip_leads)) = vip_leads
                     /\ LET row == vip_leads'[Len(vip_leads')]
                        IN  /\ row.store_id = store_id
                            /\ row.lead_type =
                                 (IF executed'[Len(executed')].type = "capture_b2b_lead"
                                  THEN "b2b_bulk" ELSE "vip_custom")
                            /\ row.intent_score = 85
                            /\ row.email = data.customer.email
                            /\ row.chat_context = Message) ]_vars

\* the table holds a b2b_bulk row and a vip_custom row
C7_Witness ==
    /\ Len(vip_leads) = 2
    /\ vip_leads[1].lead_type = "b2b_bulk"
    /\ vip_leads[1].chat_context = MsgWebsite
    /\ vip_leads[2].lead_type = "vip_custom"
    /\ vip_leads[2].email = "a@b.com"

\* C8: when the executor is handed a purchase-intent action it returns a
\* result, which the loop appends to action_results, and the request is not
\* ended by an unhandled fault.
C8_DraftOrderReturns ==
    (Len(executed) > 0 /\ executed[Len(executed)].type = "create_draft_order") =>
        /\ Len(action_results) = Len(executed)
        /\ reply.status # 500

\* C9: a request whose message is missing or empty is answered 400 with an
\* error body at once: no knowledge-base lookup, provider call, chat-turn
\* write or lead write is made for it and both tables stay as they were.
C9_EmptyMessageRejected ==
    /\ []((nreq > 0 /\ Message = << >>) =>
            /\ pc = "done"
            /\ reply.status = 400
            /\ "error" \in DOMAIN reply.body
            /\ ev.kb_lookup = 0 /\ ev.provider_call = 0
            /\ ev.chat_write = 0 /\ ev.lead_write = 0
            /\ ~kilo.built)
    /\ [][ (nreq' = nreq + 1 /\ Message' = << >>)
           => (vip_leads' = vip_leads /\ chat_sessions' = chat_sessions) ]_vars

\* a request without a message key, rejected after an earlier request was
\* served and stored
C9_Witness ==
    /\ pc = "done"
    /\ reply.status = 400
    /\ ~data.has_message
    /\ Len(chat_sessions) > 0
    /\ Len(vip_leads) > 0

\* C10: once an INSERT into vip_leads has succeeded in a request, the
\* executor has returned {"status": "lead_captured", "lead_id": id of the new
\* row} for it, there is one action result per executed action, and the
\* request is not ended by an unhandled fault.
C10_LeadCapturedReturned ==
    ev.insert_ok > 0 =>
        /\ reply.status # 500
        /\ Len(action_results) = Len(executed)
        /\ \E i \in 1..Len(action_results) :
              /\ action_results[i].status = "lead_captured"
              /\ action_results[i].lead_id = vip_leads[Len(vip_leads)].id

=============================================================================
